---------------------------- MODULE Spec2Model ----------------------------
(***************************************************************************)
(* Model of data_preparation.ipynb: the Polygon->BBox Converter            *)
(* (convert_polygons_to_bboxes), the Mask & BBox Extractor                 *)
(* (extract_masks_and_bboxes) and the aggregation loop that drives it.     *)
(*                                                                         *)
(* Text files are sequences of tokens.  A numeric token is a natural       *)
(* number of ticks (Unit ticks make 1.0), BAD is a token float() rejects   *)
(* and NL is the newline byte.  Float arithmetic is exact arithmetic on    *)
(* ticks; formatting and rounding are computed as Python computes them.    *)
(* cv2.fillPoly and cv2.connectedComponentsWithStats are library calls,    *)
(* modelled by what they are documented to return.  The numbering of the   *)
(* components is the library's choice: every numbering is a behaviour.     *)
(***************************************************************************)
EXTENDS Integers, Sequences, FiniteSets, TLC

VARIABLES fs, dirs, order, bbox_dir, class_id,
          pc, run, snap, listing, filename, lines, i, bbox_lines, written,
          start,
          images, img_order, img_listing, epc, file, k, h, w, base_mask,
          label_lines, n, labels, masks, boxes, ground_truth_masks, bbox_coords

convVars == <<fs, dirs, order, bbox_dir, class_id,
              pc, run, snap, listing, filename, lines, i, bbox_lines, written,
              start>>

extVars == <<images, img_order, img_listing, epc, file, k, h, w, base_mask,
             label_lines, n, labels, masks, boxes, ground_truth_masks,
             bbox_coords>>

vars == <<convVars, extVars>>

---------------------------------------------------------------------------
(* Bounds of the model *)

\* ticks per 10^-6: the resolution of the coordinates the label files hold
TicksPerMicro == 10
\* total number of lines over the label files of a directory
MaxLines == 2

(* Representation *)

Micro == 1000000
Unit == TicksPerMicro * Micro
BAD == -1
NL == -2

---------------------------------------------------------------------------
(* Python helpers *)

Rest(s) == IF s = <<>> THEN <<>> ELSE Tail(s)

\* s[start-1::2] in Python terms: every second element from position start
Slice2(s, first) ==
  [j \in 1..((Len(s) - first + 2) \div 2) |-> s[first + 2 * (j - 1)]]

SeqRange(s) == {s[j] : j \in 1..Len(s)}

Min(S) == CHOOSE m \in S : \A e \in S : m <= e
Max(S) == CHOOSE m \in S : \A e \in S : e <= m

\* round-half-to-even of num / d, for num >= 0 and d > 0
RoundHalfEven(num, d) ==
  LET q == num \div d
      r == num % d
  IN IF 2 * r < d THEN q
     ELSE IF 2 * r > d THEN q + 1
     ELSE IF q % 2 = 0 THEN q ELSE q + 1

\* f"{v:.6f}" of the value num / d ticks, read back as a token (ticks)
Format6(num, d) == RoundHalfEven(num, d * TicksPerMicro) * TicksPerMicro

\* f.readlines() followed by line.strip().split(): the token lists of the lines
RECURSIVE ReadLinesFrom(_, _)
ReadLinesFrom(content, cur) ==
  IF content = <<>> THEN (IF cur = <<>> THEN <<>> ELSE <<cur>>)
  ELSE IF Head(content) = NL THEN <<cur>> \o ReadLinesFrom(Tail(content), <<>>)
  ELSE ReadLinesFrom(Tail(content), Append(cur, Head(content)))

ReadLines(content) == ReadLinesFrom(content, <<>>)

\* '\n'.join(ls)
RECURSIVE JoinLines(_)
JoinLines(ls) ==
  IF ls = <<>> THEN <<>>
  ELSE IF Len(ls) = 1 THEN ls[1]
  ELSE ls[1] \o <<NL>> \o JoinLines(Tail(ls))

---------------------------------------------------------------------------
(* convert_polygons_to_bboxes: the body of the per-line loop *)

\* list(map(float, ...)) raises ValueError on a token that is no number
FloatRaises(ln) == \E j \in 1..Len(ln) : ln[j] = BAD

ConverterSkips(parts) == Len(parts) < 6

x_coords(coords) == Slice2(coords, 1)
y_coords(coords) == Slice2(coords, 2)

\* the class written is the record's own
EmittedRecordClass(parts, cid) == parts[1]

\* f"{class_id} ...": the class written is the caller's class_id
EmittedClass(parts, cid) == cid * Unit

BBoxLine(parts, cid) ==
  LET coords == Tail(parts)
      x_min == Min(SeqRange(x_coords(coords)))
      x_max == Max(SeqRange(x_coords(coords)))
      y_min == Min(SeqRange(y_coords(coords)))
      y_max == Max(SeqRange(y_coords(coords)))
  IN << EmittedClass(parts, cid),
        Format6(x_min + x_max, 2),
        Format6(y_min + y_max, 2),
        Format6(x_max - x_min, 1),
        Format6(y_max - y_min, 1) >>

---------------------------------------------------------------------------
(* extract_masks_and_bboxes: the body of the per-line loop *)

\* if len(coords) < 6: continue
ExtractorSkips(coords) == Len(coords) < 6

\* coords[i+1] raises IndexError when the last x has no y
IndexRaises(coords) == Len(coords) % 2 = 1

\* int(round(c * size)): Python rounds halves to even
ScaleRound(c, size) == RoundHalfEven(c * size, Unit)

\* the polygon's pixel vertices <<x, y>>: x scaled by w, y by h
Polygon(coords, hh, ww) ==
  [j \in 1..(Len(coords) \div 2) |->
     <<ScaleRound(coords[2 * j - 1], ww), ScaleRound(coords[2 * j], hh)>>]

\* an image of shape (hh, ww) is indexed by the pixels <<x, y>>
Pixels(hh, ww) == (0..(ww - 1)) \X (0..(hh - 1))

\* np.zeros((h, w), dtype=np.uint8)
Zeros(hh, ww) == [p \in Pixels(hh, ww) |-> 0]

Dist(a, b) == IF a < b THEN b - a ELSE a - b
Larger(a, b) == IF a < b THEN b ELSE a
Between(v, a, b) == (a <= v /\ v <= b) \/ (b <= v /\ v <= a)

\* p is a pixel of the line drawn from a to b: one pixel per step along the
\* longer axis, the nearest to the segment
OnEdge(p, a, b) ==
  LET dx == b[1] - a[1]
      dy == b[2] - a[2]
      c  == (p[1] - a[1]) * dy - (p[2] - a[2]) * dx
      m  == Larger(Dist(a[1], b[1]), Dist(a[2], b[2]))
  IN IF a = b THEN p = a
     ELSE /\ Between(p[1], a[1], b[1])
          /\ Between(p[2], a[2], b[2])
          /\ 2 * c <= m
          /\ 0 - m < 2 * c

NextVertex(poly, j) == poly[(j % Len(poly)) + 1]

\* the edge from a to b crosses the horizontal ray from p to the right
Crosses(p, a, b) ==
  /\ (a[2] > p[2]) # (b[2] > p[2])
  /\ IF b[2] > a[2]
       THEN (p[1] - a[1]) * (b[2] - a[2]) < (p[2] - a[2]) * (b[1] - a[1])
       ELSE (p[1] - a[1]) * (b[2] - a[2]) > (p[2] - a[2]) * (b[1] - a[1])

\* the pixels cv2.fillPoly sets: the polygon's outline and its even-odd interior
Covered(p, poly) ==
  \/ \E j \in 1..Len(poly) : OnEdge(p, poly[j], NextVertex(poly, j))
  \/ Cardinality({j \in 1..Len(poly) : Crosses(p, poly[j], NextVertex(poly, j))}) % 2 = 1

\* cv2.fillPoly(mask, [polygon], value), clipped to the image
FillPoly(mask, poly, value) ==
  [p \in DOMAIN mask |-> IF Covered(p, poly) THEN value ELSE mask[p]]

Foreground(mask) == {p \in DOMAIN mask : mask[p] # 0}

\* connectivity=4: only the pixels sharing a side
Adjacent4(p, q) == Dist(p[1], q[1]) + Dist(p[2], q[2]) = 1

\* connectivity=8: the pixels sharing a side or a corner
Adjacent(p, q) == p # q /\ Dist(p[1], q[1]) <= 1 /\ Dist(p[2], q[2]) <= 1

RECURSIVE Grow(_, _)
Grow(S, F) ==
  LET T == S \cup {q \in F : \E p \in S : Adjacent(p, q)}
  IN IF T = S THEN S ELSE Grow(T, F)

\* the connected components of the foreground of a mask
Components(mask) == {Grow({p}, Foreground(mask)) : p \in Foreground(mask)}

\* the orders in which cv2.connectedComponentsWithStats may number them 1..n
Labelings(mask) ==
  {lab \in [1..Cardinality(Components(mask)) -> Components(mask)] :
     \A a \in DOMAIN lab, b \in DOMAIN lab : lab[a] = lab[b] => a = b}

LabelImage(mask, lab) ==
  [p \in DOMAIN mask |->
     IF \E j \in DOMAIN lab : p \in lab[j]
       THEN CHOOSE j \in DOMAIN lab : p \in lab[j]
       ELSE 0]

\* stats[i]: left, top, width, height of label i
Stats(lab, j) ==
  LET xs == {p[1] : p \in lab[j]}
      ys == {p[2] : p \in lab[j]}
  IN <<Min(xs), Min(ys), Max(xs) - Min(xs) + 1, Max(ys) - Min(ys) + 1>>

\* every label at or above i
MaskFromLabelUp(lbl, j) == [p \in DOMAIN lbl |-> IF lbl[p] >= j THEN 1 ELSE 0]

\* (labels == i).astype(np.uint8)
component_mask(lbl, j) == [p \in DOMAIN lbl |-> IF lbl[p] = j THEN 1 ELSE 0]

\* the stats' width and height taken for the far corner
BoxWidthHeight(st) == <<st[1], st[2], st[3], st[4]>>

\* np.array([x, y, x + w_box, y + h_box])
Box(st) == <<st[1], st[2], st[1] + st[3], st[2] + st[4]>>

\* (mask > 0).astype(np.uint8)
Binarize(mask) == [p \in DOMAIN mask |-> IF mask[p] > 0 THEN 1 ELSE 0]

---------------------------------------------------------------------------
(* The label directory the runs start from *)

LabelDir == "labels"
BBoxDir == "bbox"
TxtFiles == {"a.txt", "b.txt"}
OtherFiles == {"notes.md"}
AllFiles == TxtFiles \cup OtherFiles
EndsWithTxt(f) == f \in TxtFiles

P(micro, sub) == micro * TicksPerMicro + sub
Cls(c) == c * Unit

LineSquare == << Cls(0), P(100000, 0), P(100000, 0), P(100000, 0), P(500000, 0),
                 P(500000, 0), P(500000, 0), P(500000, 0), P(100000, 0) >>
LineFine   == << Cls(1), P(123456, 7), P(200000, 3), P(123456, 7), P(600000, 4),
                 P(123456, 7), P(400000, 0) >>
LineTwoV   == << Cls(0), P(100000, 0), P(100000, 0), P(500000, 0), P(500000, 0) >>
LineFive   == << Cls(0), P(100000, 0), P(100000, 0), P(500000, 0), P(500000, 0),
                 P(300000, 0) >>
LineBad    == << Cls(0), P(100000, 0), BAD, P(500000, 0), P(500000, 0),
                 P(300000, 0), P(300000, 0) >>
LineSeven  == << Cls(0), P(100000, 0), P(100000, 0), P(500000, 0), P(500000, 0),
                 P(300000, 0), P(300000, 0), P(900000, 0) >>
LineBlank  == << >>
\* a box line left in bbox_dir by an earlier conversion
StaleLine  == << Cls(1), P(500000, 0), P(500000, 0), P(1000000, 0), P(1000000, 0) >>

LineCatalog == {LineSquare, LineFine, LineTwoV, LineFive, LineSeven, LineBad,
                LineBlank}

LineSeqs(len) == UNION {[1..m -> LineCatalog] : m \in 0..len}

\* "a.txt" ends with a newline, "b.txt" does not
FileText(f, ls) ==
  IF f = "a.txt" /\ ls # <<>> THEN JoinLines(ls) \o <<NL>> ELSE JoinLines(ls)

LabelDirs ==
  { [f \in AllFiles |->
       IF f = "a.txt" THEN FileText(f, la)
       ELSE IF f = "b.txt" THEN FileText(f, lb)
       ELSE <<BAD, NL, BAD>>] :
    <<la, lb>> \in {q \in LineSeqs(MaxLines) \X LineSeqs(MaxLines) :
                      Len(q[1]) + Len(q[2]) <= MaxLines} }

Orders == {o \in [1..Cardinality(AllFiles) -> AllFiles] :
             \A f \in AllFiles : \E j \in DOMAIN o : o[j] = f}

Empty == [f \in {} |-> <<>>]

---------------------------------------------------------------------------
(* State machine of the Converter *)

ConvInit ==
  /\ \E d \in LabelDirs, stale \in BOOLEAN, bd \in {LabelDir, BBoxDir} :
       /\ bbox_dir = bd
       /\ dirs = IF stale THEN {LabelDir, BBoxDir} ELSE {LabelDir}
       /\ fs = [dn \in {LabelDir, BBoxDir} |->
                  IF dn = LabelDir THEN d
                  ELSE IF stale THEN [f \in TxtFiles |-> StaleLine] ELSE Empty]
  /\ order \in Orders
  /\ class_id \in {0, 1}
  /\ pc = "idle"
  /\ run = 0
  /\ snap = fs
  /\ start = fs
  /\ listing = <<>>
  /\ filename = ""
  /\ lines = <<>>
  /\ i = 0
  /\ bbox_lines = <<>>
  /\ written = {}

\* os.makedirs(bbox_dir, exist_ok=True); os.listdir(label_dir)
Call ==
  /\ pc \in {"idle", "done", "error"}
  /\ run < 2
  /\ run' = run + 1
  /\ snap' = IF run = 1 THEN fs ELSE snap
  /\ start' = fs
  /\ dirs' = dirs \cup {bbox_dir}
  /\ listing' = order
  /\ written' = {}
  /\ pc' = "loop"
  /\ UNCHANGED <<fs, order, bbox_dir, class_id, filename, lines, i, bbox_lines>>
  /\ UNCHANGED extVars

\* if not filename.endswith('.txt'): continue
SkipFile ==
  /\ pc = "loop"
  /\ listing # <<>>
  /\ ~EndsWithTxt(Head(listing))
  /\ filename' = Head(listing)
  /\ listing' = Tail(listing)
  /\ UNCHANGED <<fs, dirs, order, bbox_dir, class_id, pc, run, snap, lines, i,
                 bbox_lines, written, start>>
  /\ UNCHANGED extVars

\* with open(label_path, 'r') as f: lines = f.readlines(); bbox_lines = []
OpenLabel ==
  /\ pc = "loop"
  /\ listing # <<>>
  /\ EndsWithTxt(Head(listing))
  /\ filename' = Head(listing)
  /\ listing' = Tail(listing)
  /\ lines' = ReadLines(fs[LabelDir][Head(listing)])
  /\ i' = 0
  /\ bbox_lines' = <<>>
  /\ pc' = "lines"
  /\ UNCHANGED <<fs, dirs, order, bbox_dir, class_id, run, snap, written, start>>
  /\ UNCHANGED extVars

BBoxLinesAfter(acc, parts, cid) ==
  IF ConverterSkips(parts) THEN acc ELSE Append(acc, BBoxLine(parts, cid))

\* one iteration of "for line in lines"
ConvertLine ==
  /\ pc = "lines"
  /\ i < Len(lines)
  /\ i' = i + 1
  /\ IF FloatRaises(lines[i + 1])
       THEN /\ pc' = "error"
            /\ UNCHANGED bbox_lines
       ELSE /\ pc' = pc
            /\ bbox_lines' = BBoxLinesAfter(bbox_lines, lines[i + 1], class_id)
  /\ UNCHANGED <<fs, dirs, order, bbox_dir, class_id, run, snap, listing,
                 filename, lines, written, start>>
  /\ UNCHANGED extVars

\* the write sits inside the loop over the lines
WriteInsideLoop(done, total) == TRUE

\* the write follows the loop over the lines
WriteTime(done, total) == done = total

\* open(bbox_path, 'a'): the text is appended
FileAppend(old, text) == old \o text

\* open(bbox_path, 'w') truncates; f.write(text) then holds the file's bytes
FileWrite(old, text) == text

\* with open(bbox_path, 'w') as f: f.write('\n'.join(bbox_lines))
WriteBBox ==
  /\ pc = "lines"
  /\ WriteTime(i, Len(lines))
  /\ fs' = [fs EXCEPT ![bbox_dir] =
              [f \in (DOMAIN fs[bbox_dir]) \cup {filename} |->
                 IF f = filename
                   THEN FileWrite(IF f \in DOMAIN fs[bbox_dir]
                                    THEN fs[bbox_dir][f] ELSE <<>>,
                                  JoinLines(bbox_lines))
                   ELSE fs[bbox_dir][f]]]
  /\ written' = written \cup {filename}
  /\ pc' = "loop"
  /\ UNCHANGED <<dirs, order, bbox_dir, class_id, run, snap, listing, filename,
                 lines, i, bbox_lines, start>>
  /\ UNCHANGED extVars

\* the loop over os.listdir is exhausted: print and return
Return ==
  /\ pc = "loop"
  /\ listing = <<>>
  /\ pc' = "done"
  /\ UNCHANGED <<fs, dirs, order, bbox_dir, class_id, run, snap, listing,
                 filename, lines, i, bbox_lines, written, start>>
  /\ UNCHANGED extVars

ExtIdle ==
  /\ images = Empty
  /\ img_order = <<>>
  /\ img_listing = <<>>
  /\ epc = "idle"
  /\ file = ""
  /\ k = ""
  /\ h = 0
  /\ w = 0
  /\ base_mask = Empty
  /\ label_lines = <<>>
  /\ n = 0
  /\ labels = Empty
  /\ masks = <<>>
  /\ boxes = <<>>
  /\ ground_truth_masks = Empty
  /\ bbox_coords = Empty

convert_polygons_to_bboxes ==
  \/ Call
  \/ SkipFile
  \/ OpenLabel
  \/ ConvertLine
  \/ WriteBBox
  \/ Return

Init == ConvInit /\ ExtIdle

Next == convert_polygons_to_bboxes

Spec == Init /\ [][Next]_vars

---------------------------------------------------------------------------
(* The image and label directories the aggregation starts from *)

ImageFiles == {"a.jpg", "b.png"}
\* os.path.splitext(file)[0]
Stem(f) == IF f = "a.jpg" THEN "a" ELSE "b"
\* k + ".txt"
LabelName(key) == IF key = "a" THEN "a.txt" ELSE "b.txt"

\* img.shape[:2] of the images: (H, W)
Shapes == {<<4, 4>>, <<4, 8>>}

\* coordinates in eighths of the image side
E(e) == e * (Unit \div 8)

PolyTriA   == << Cls(0), E(0), E(0), E(2), E(0), E(0), E(2) >>
PolyTriB   == << Cls(0), E(6), E(6), E(6), E(4), E(4), E(6) >>
PolyDot    == << Cls(1), E(4), E(2), E(4), E(2), E(4), E(2) >>
PolySquare == << Cls(0), E(1), E(1), E(3), E(1), E(3), E(3), E(1), E(3) >>
PolyFive   == << Cls(0), E(0), E(0), E(2), E(0), E(0) >>
PolySeven  == << Cls(0), E(0), E(0), E(2), E(0), E(0), E(2), E(2) >>
PolyBad    == << Cls(0), E(0), E(0), BAD, E(0), E(0), E(2) >>

PolyCatalog == {PolyTriA, PolyTriB, PolyDot, PolySquare, PolyFive, PolySeven,
                PolyBad, LineBlank}

PolySeqs(len) == UNION {[1..m -> PolyCatalog] : m \in 0..len}

\* "b.txt" may be missing from the label directory
PolyDirs ==
  { [f \in {"a.txt"} |-> FileText(f, la)] : la \in PolySeqs(MaxLines) }
  \cup
  { [f \in TxtFiles |-> IF f = "a.txt" THEN FileText(f, la) ELSE FileText(f, lb)] :
    <<la, lb>> \in {q \in PolySeqs(MaxLines) \X PolySeqs(MaxLines) :
                      Len(q[1]) + Len(q[2]) <= MaxLines} }

ImageOrders == {<<"a.jpg", "b.png">>, <<"b.png", "a.jpg">>}

ConvIdle ==
  /\ dirs = {LabelDir}
  /\ order = <<>>
  /\ bbox_dir = BBoxDir
  /\ class_id = 0
  /\ pc = "idle"
  /\ run = 0
  /\ snap = fs
  /\ start = fs
  /\ listing = <<>>
  /\ filename = ""
  /\ lines = <<>>
  /\ i = 0
  /\ bbox_lines = <<>>
  /\ written = {}

ExtInit ==
  /\ \E d \in PolyDirs :
       fs = [dn \in {LabelDir, BBoxDir} |-> IF dn = LabelDir THEN d ELSE Empty]
  /\ images \in [ImageFiles -> Shapes]
  /\ img_order \in ImageOrders
  /\ img_listing = <<>>
  /\ epc = "idle"
  /\ file = ""
  /\ k = ""
  /\ h = 0
  /\ w = 0
  /\ base_mask = Empty
  /\ label_lines = <<>>
  /\ n = 0
  /\ labels = Empty
  /\ masks = <<>>
  /\ boxes = <<>>
  /\ ground_truth_masks = Empty
  /\ bbox_coords = Empty

---------------------------------------------------------------------------
(* State machine of the aggregation loop and the Extractor *)

\* ground_truth_masks = {}; bbox_coords = {}; for file in os.listdir(image_dir)
Aggregate ==
  /\ epc = "idle"
  /\ img_listing' = img_order
  /\ ground_truth_masks' = Empty
  /\ bbox_coords' = Empty
  /\ epc' = "agg"
  /\ UNCHANGED <<images, img_order, file, k, h, w, base_mask, label_lines, n,
                 labels, masks, boxes>>
  /\ UNCHANGED convVars

\* open(label_path, 'r') raises FileNotFoundError: the image has no label file
MissingLabel ==
  /\ epc = "agg"
  /\ img_listing # <<>>
  /\ LabelName(Stem(Head(img_listing))) \notin DOMAIN fs[LabelDir]
  /\ file' = Head(img_listing)
  /\ k' = Stem(Head(img_listing))
  /\ img_listing' = Tail(img_listing)
  /\ h' = images[Head(img_listing)][1]
  /\ w' = images[Head(img_listing)][2]
  /\ base_mask' = Zeros(images[Head(img_listing)][1], images[Head(img_listing)][2])
  /\ epc' = "FileNotFoundError"
  /\ UNCHANGED <<images, img_order, label_lines, n, labels, masks, boxes,
                 ground_truth_masks, bbox_coords>>
  /\ UNCHANGED convVars

\* extract_masks_and_bboxes(label_path, img.shape[:2]) up to the open
OpenImage ==
  /\ epc = "agg"
  /\ img_listing # <<>>
  /\ LabelName(Stem(Head(img_listing))) \in DOMAIN fs[LabelDir]
  /\ file' = Head(img_listing)
  /\ k' = Stem(Head(img_listing))
  /\ img_listing' = Tail(img_listing)
  /\ h' = images[Head(img_listing)][1]
  /\ w' = images[Head(img_listing)][2]
  /\ base_mask' = Zeros(images[Head(img_listing)][1], images[Head(img_listing)][2])
  /\ label_lines' = ReadLines(fs[LabelDir][LabelName(Stem(Head(img_listing)))])
  /\ n' = 0
  /\ epc' = "lines"
  /\ UNCHANGED <<images, img_order, labels, masks, boxes, ground_truth_masks,
                 bbox_coords>>
  /\ UNCHANGED convVars

\* one iteration of "for line in f"
ExtractLine ==
  /\ epc = "lines"
  /\ n < Len(label_lines)
  /\ n' = n + 1
  /\ LET items == label_lines[n + 1]
         coords == Rest(items)
     IN IF FloatRaises(items)
          THEN epc' = "ValueError" /\ UNCHANGED base_mask
          ELSE IF ExtractorSkips(coords)
            THEN UNCHANGED <<epc, base_mask>>
            ELSE IF IndexRaises(coords)
              THEN epc' = "IndexError" /\ UNCHANGED base_mask
              ELSE /\ base_mask' = FillPoly(base_mask, Polygon(coords, h, w), 1)
                   /\ UNCHANGED epc
  /\ UNCHANGED <<images, img_order, img_listing, file, k, h, w, label_lines,
                 labels, masks, boxes, ground_truth_masks, bbox_coords>>
  /\ UNCHANGED convVars

FirstLabel == 1

\* cv2.connectedComponentsWithStats and the loop over range(1, num_labels)
SeparateComponents ==
  /\ epc = "lines"
  /\ n = Len(label_lines)
  /\ \E lab \in Labelings(base_mask) :
       LET num_labels == Len(lab) + 1
       IN /\ labels' = LabelImage(base_mask, lab)
          /\ masks' = [j \in 1..(num_labels - FirstLabel) |->
                         component_mask(LabelImage(base_mask, lab), j + FirstLabel - 1)]
          /\ boxes' = [j \in 1..(num_labels - FirstLabel) |->
                         Box(Stats(lab, j + FirstLabel - 1))]
  /\ epc' = "return"
  /\ UNCHANGED <<images, img_order, img_listing, file, k, h, w, base_mask,
                 label_lines, n, ground_truth_masks, bbox_coords>>
  /\ UNCHANGED convVars

\* ground_truth_masks[k] = [(mask > 0)...]; bbox_coords[k] = boxes
Store ==
  /\ epc = "return"
  /\ ground_truth_masks' =
       [key \in DOMAIN ground_truth_masks \cup {k} |->
          IF key = k THEN [j \in 1..Len(masks) |-> Binarize(masks[j])]
          ELSE ground_truth_masks[key]]
  /\ bbox_coords' =
       [key \in DOMAIN bbox_coords \cup {k} |->
          IF key = k THEN boxes ELSE bbox_coords[key]]
  /\ epc' = "agg"
  /\ UNCHANGED <<images, img_order, img_listing, file, k, h, w, base_mask,
                 label_lines, n, labels, masks, boxes>>
  /\ UNCHANGED convVars

\* the loop over the images is exhausted
AggregateDone ==
  /\ epc = "agg"
  /\ img_listing = <<>>
  /\ epc' = "done"
  /\ UNCHANGED <<images, img_order, img_listing, file, k, h, w, base_mask,
                 label_lines, n, labels, masks, boxes, ground_truth_masks,
                 bbox_coords>>
  /\ UNCHANGED convVars

extract_masks_and_bboxes ==
  \/ Aggregate
  \/ MissingLabel
  \/ OpenImage
  \/ ExtractLine
  \/ SeparateComponents
  \/ Store
  \/ AggregateDone

InitExt == ExtInit /\ ConvIdle

NextExt == extract_masks_and_bboxes

SpecExt == InitExt /\ [][NextExt]_vars

---------------------------------------------------------------------------
(* Vocabulary of the claims *)

Numeric(ln) == \A j \in 1..Len(ln) : ln[j] >= 0
PostCount(ln) == IF ln = <<>> THEN 0 ELSE Len(ln) - 1
\* the spec's filtering rule: at least 6 values after the class id
SixPlus(ln) == Numeric(ln) /\ PostCount(ln) >= 6
\* a polygon record: at least 3 complete (x, y) vertices
ValidRecord(ln) == SixPlus(ln) /\ PostCount(ln) % 2 = 0
XS(ln) == {ln[j] : j \in {m \in 2..Len(ln) : m % 2 = 0}}
YS(ln) == {ln[j] : j \in {m \in 3..Len(ln) : m % 2 = 1}}
Lowest(v, S) == v \in S /\ \A e \in S : v <= e
Highest(v, S) == v \in S /\ \A e \in S : e <= v
Abs(v) == IF v < 0 THEN 0 - v ELSE v
\* t is a 6-decimal number at most half of 10^-6 away from num / d
Rounded6(t, num, d) == t % TicksPerMicro = 0 /\ 2 * Abs(d * t - num) <= d * TicksPerMicro
LastBox == bbox_lines[Len(bbox_lines)]
LineDone == i >= 1 /\ i <= Len(lines) /\ pc # "error"
InputLines(f) == ReadLines(start[LabelDir][f])
OutputOf(f) == fs[bbox_dir][f]

(* C1 as amended: for every valid polygon record and every class_id the
   emitted box line carries the caller's class_id and, each rounded to 6
   decimals, the midpoints of the x and y extrema and their spans; the
   centre lies within [min, max] up to half of 10^-6. *)
C1BoxLineRounded ==
  (LineDone /\ ValidRecord(lines[i])) =>
    /\ bbox_lines # <<>>
    /\ Len(LastBox) = 5
    /\ LastBox[1] = class_id * Unit
    /\ \E xlo \in XS(lines[i]), xhi \in XS(lines[i]),
          ylo \in YS(lines[i]), yhi \in YS(lines[i]) :
         /\ Lowest(xlo, XS(lines[i])) /\ Highest(xhi, XS(lines[i]))
         /\ Lowest(ylo, YS(lines[i])) /\ Highest(yhi, YS(lines[i]))
         /\ Rounded6(LastBox[2], xlo + xhi, 2)
         /\ Rounded6(LastBox[3], ylo + yhi, 2)
         /\ Rounded6(LastBox[4], xhi - xlo, 1)
         /\ Rounded6(LastBox[5], yhi - ylo, 1)
         /\ 2 * xlo - TicksPerMicro <= 2 * LastBox[2]
         /\ 2 * LastBox[2] <= 2 * xhi + TicksPerMicro
         /\ 2 * ylo - TicksPerMicro <= 2 * LastBox[3]
         /\ 2 * LastBox[3] <= 2 * yhi + TicksPerMicro

\* C1 as stated: the emitted fields are the exact midpoints and spans
C1BoxLineExact ==
  (LineDone /\ ValidRecord(lines[i])) =>
    /\ bbox_lines # <<>>
    /\ LastBox[1] = class_id * Unit
    /\ \E xlo \in XS(lines[i]), xhi \in XS(lines[i]),
          ylo \in YS(lines[i]), yhi \in YS(lines[i]) :
         /\ Lowest(xlo, XS(lines[i])) /\ Highest(xhi, XS(lines[i]))
         /\ Lowest(ylo, YS(lines[i])) /\ Highest(yhi, YS(lines[i]))
         /\ 2 * LastBox[2] = xlo + xhi
         /\ 2 * LastBox[3] = ylo + yhi
         /\ LastBox[4] = xhi - xlo
         /\ LastBox[5] = yhi - ylo
         /\ xlo <= LastBox[2] /\ LastBox[2] <= xhi
         /\ ylo <= LastBox[3] /\ LastBox[3] <= yhi

\* a record of class 1 converted under class_id 0 whose rounded centre leaves [min, max]
C1Witness ==
  /\ LineDone /\ ValidRecord(lines[i]) /\ bbox_lines # <<>>
  /\ lines[i][1] # class_id * Unit
  /\ \A e \in XS(lines[i]) : e < LastBox[2]
  /\ LastBox[5] > 0

(* C2 as stated: a line yields a box line exactly when it has at least 6
   values after the class id, and the Extractor keeps exactly the records
   the Converter keeps. *)
C2SameFilter ==
  /\ Len(bbox_lines) =
       Cardinality({j \in 1..i : j <= Len(lines) /\ SixPlus(lines[j])})
  /\ \A j \in 1..Len(lines) :
       Numeric(lines[j]) => (ConverterSkips(lines[j]) <=> ExtractorSkips(Rest(lines[j])))

(* C3 as stated: a line with a non-numeric token raises no error in the
   Converter. *)
C3BadLineSkipped ==
  (i >= 1 /\ i <= Len(lines) /\ ~Numeric(lines[i])) => pc # "error"

(* C4 as stated: after a completed run every .txt label file has an output
   file of the same name holding one box line per valid polygon record (at
   least 6 values after the class id), in order, newline-joined with no
   trailing newline, and zero bytes when no record is valid. *)
C4OneLinePerValidRecord ==
  pc = "done" =>
    \A f \in TxtFiles :
      /\ f \in DOMAIN fs[bbox_dir]
      /\ LET valid == SelectSeq(InputLines(f), SixPlus)
         IN /\ ReadLines(OutputOf(f)) =
                 [j \in 1..Len(valid) |-> BBoxLine(valid[j], class_id)]
            /\ (OutputOf(f) = <<>> \/ OutputOf(f)[Len(OutputOf(f))] # NL)
            /\ (valid = <<>> => OutputOf(f) = <<>>)

(* C5 as amended: when bbox_dir is a directory other than label_dir, a
   second run with the same arguments leaves every output file byte-identical
   to what the first run wrote. *)
C5IdempotentSeparateDirs ==
  (run = 2 /\ bbox_dir # LabelDir) => fs[bbox_dir] = snap[bbox_dir]

\* C5 as stated: for every choice of label_dir and bbox_dir
C5IdempotentAnyDirs ==
  (run = 2 /\ pc \in {"done", "error"}) => fs[bbox_dir] = snap[bbox_dir]

\* a second run has finished over an output file of two box lines
C5Witness ==
  /\ run = 2 /\ pc = "done" /\ bbox_dir # LabelDir
  /\ \E f \in written : \E j \in 1..Len(OutputOf(f)) : OutputOf(f)[j] = NL

(* C9: at every state of a run, an aborted one included, every output file
   the run has written holds the box lines of all the records of its input
   file, every valid record among them; the file the run failed on and the
   files after it are as they were when the run began. *)
C9NoTruncatedOutput ==
  /\ \A f \in written :
       /\ f \in DOMAIN fs[bbox_dir]
       /\ LET kept == SelectSeq(InputLines(f), LAMBDA ln : ~ConverterSkips(ln))
              out == ReadLines(OutputOf(f))
          IN /\ \A j \in 1..Len(InputLines(f)) : Numeric(InputLines(f)[j])
             /\ Len(out) = Len(kept)
             /\ \A j \in 1..Len(out) : out[j] = BBoxLine(kept[j], class_id)
             /\ \A j \in 1..Len(InputLines(f)) :
                  ValidRecord(InputLines(f)[j]) =>
                    \E m \in 1..Len(out) : out[m] = BBoxLine(InputLines(f)[j], class_id)
  /\ \A f \in AllFiles \ written :
       /\ f \in DOMAIN fs[bbox_dir] <=> f \in DOMAIN start[bbox_dir]
       /\ f \in DOMAIN fs[bbox_dir] => fs[bbox_dir][f] = start[bbox_dir][f]
  /\ pc = "error" => filename \notin written

\* a run aborted on its second file: the first holds its box line, the stale
\* output of the second is untouched
C9Witness ==
  /\ pc = "error" /\ bbox_dir # LabelDir
  /\ \E f \in written : OutputOf(f) # <<>>
  /\ filename \in DOMAIN fs[bbox_dir] /\ fs[bbox_dir][filename] = StaleLine

---------------------------------------------------------------------------
(* Claims about the Extractor and the aggregation loop *)

Near(p, q) == Dist(p[1], q[1]) <= 1 /\ Dist(p[2], q[2]) <= 1

RECURSIVE Reach(_, _)
Reach(S, F) ==
  LET T == S \cup {q \in F : \E p \in S : Near(p, q)}
  IN IF T = S THEN S ELSE Reach(T, F)

\* M is one 8-connected region
Connected8(M) == M # {} /\ \A p \in M : Reach({p}, M) = M

\* box is the pixel bounding box of M, its far corner moved out by far
BoundsOf(box, M, far) ==
  /\ M # {}
  /\ \E xlo \in {p[1] : p \in M}, xhi \in {p[1] : p \in M},
        ylo \in {p[2] : p \in M}, yhi \in {p[2] : p \in M} :
       /\ \A p \in M : xlo <= p[1] /\ p[1] <= xhi /\ ylo <= p[2] /\ p[2] <= yhi
       /\ box = <<xlo, ylo, xhi + far, yhi + far>>

Aligned(ms, bs, far) ==
  /\ Len(ms) = Len(bs)
  /\ \A j \in 1..Len(ms) : BoundsOf(bs[j], Foreground(ms[j]), far)

Disjoint(ms) ==
  \A a \in 1..Len(ms), b \in 1..Len(ms) :
    a # b => Foreground(ms[a]) \cap Foreground(ms[b]) = {}

Binary(ms, hh, ww) ==
  \A j \in 1..Len(ms) :
    DOMAIN ms[j] = Pixels(hh, ww) /\ \A p \in DOMAIN ms[j] : ms[j][p] \in {0, 1}

ShapeOfKey(key) == IF key = "a" THEN images["a.jpg"] ELSE images["b.png"]

\* the records of the current label file the Extractor rasterizes
Kept == {j \in 1..Len(label_lines) : ~ExtractorSkips(Rest(label_lines[j]))}
RegionOf(j) ==
  Foreground(FillPoly(Zeros(h, w), Polygon(Rest(label_lines[j]), h, w), 1))
Touching(a, b) == \E p \in RegionOf(a), q \in RegionOf(b) : Near(p, q)

(* C6 as amended: the Extractor returns as many boxes as masks, and box i is
   (x_min, y_min, x_max + 1, y_max + 1) for the smallest and largest column
   and row holding a foreground pixel of mask i; the same per image key in
   the aggregator's two mappings. *)
C6BoxesAlignedExclusive ==
  /\ Aligned(masks, boxes, 1)
  /\ DOMAIN ground_truth_masks = DOMAIN bbox_coords
  /\ \A key \in DOMAIN ground_truth_masks :
       Aligned(ground_truth_masks[key], bbox_coords[key], 1)

\* C6 as stated: the far corner is the largest column and row itself
C6BoxesAlignedInclusive ==
  /\ Aligned(masks, boxes, 0)
  /\ DOMAIN ground_truth_masks = DOMAIN bbox_coords
  /\ \A key \in DOMAIN ground_truth_masks :
       Aligned(ground_truth_masks[key], bbox_coords[key], 0)

\* an image key stored with two instances of different extent
C6Witness ==
  \E key \in DOMAIN ground_truth_masks :
    /\ Len(ground_truth_masks[key]) = 2
    /\ bbox_coords[key][1][3] - bbox_coords[key][1][1] #
         bbox_coords[key][2][3] - bbox_coords[key][2][1]

(* C7: the masks the Extractor returns are pairwise disjoint, each has the
   image's (H, W) shape and values in {0, 1}, and their union is the
   foreground of the filled accumulator; the stored masks of every image key
   are disjoint and binary too. *)
C7MasksDisjoint ==
  /\ epc = "return" =>
       /\ Disjoint(masks)
       /\ Binary(masks, h, w)
       /\ UNION {Foreground(masks[j]) : j \in 1..Len(masks)} = Foreground(base_mask)
  /\ \A key \in DOMAIN ground_truth_masks :
       /\ Disjoint(ground_truth_masks[key])
       /\ Binary(ground_truth_masks[key], ShapeOfKey(key)[1], ShapeOfKey(key)[2])

\* the Extractor returns two instances on a non-square image
C7Witness == epc = "return" /\ Len(masks) >= 2 /\ h # w

(* C8: when the Extractor returns, mask i is the set of pixels labelled i,
   the masks are exactly the maximal 8-connected regions of the accumulator
   into which every kept polygon was filled; two polygons whose regions
   overlap or touch, diagonally included, lie in one instance; polygons whose
   regions are pairwise apart give one instance each; a file with no kept
   polygon gives two empty lists. *)
C8InstancesAreComponents ==
  epc = "return" =>
    /\ Len(masks) = Len(boxes)
    /\ \A j \in 1..Len(masks) :
         /\ Foreground(masks[j]) = {p \in DOMAIN labels : labels[p] = j}
         /\ Connected8(Foreground(masks[j]))
         /\ \A p \in Foreground(masks[j]), q \in Foreground(base_mask) :
              Near(p, q) => q \in Foreground(masks[j])
    /\ \A p \in Foreground(base_mask) :
         \E j \in 1..Len(masks) : p \in Foreground(masks[j])
    /\ \A a \in Kept : RegionOf(a) \subseteq Foreground(base_mask)
    /\ \A a \in Kept, b \in Kept :
         Touching(a, b) =>
           \E j \in 1..Len(masks) :
             RegionOf(a) \cup RegionOf(b) \subseteq Foreground(masks[j])
    /\ (\A a \in Kept, b \in Kept : a # b => ~Touching(a, b)) =>
         /\ Len(masks) = Cardinality(Kept)
         /\ {Foreground(masks[j]) : j \in 1..Len(masks)} = {RegionOf(a) : a \in Kept}
    /\ Kept = {} => masks = <<>> /\ boxes = <<>>

\* two polygons whose regions meet only at a corner are returned as one instance
C8Witness ==
  /\ epc = "return" /\ Len(masks) = 1
  /\ \E a \in Kept, b \in Kept :
       /\ RegionOf(a) \cap RegionOf(b) = {}
       /\ \A p \in RegionOf(a), q \in RegionOf(b) :
            Dist(p[1], q[1]) + Dist(p[2], q[2]) # 1

(* C10 as stated: a record whose values after the class id do not form
   complete (x, y) pairs is discarded by the Extractor, which goes on to the
   next line without raising. *)
C10OddRecordDiscarded ==
  (n >= 1 /\ n <= Len(label_lines) /\ Numeric(label_lines[n])
     /\ PostCount(label_lines[n]) % 2 = 1)
    => epc \notin {"ValueError", "IndexError"}

===========================================================================
